---- MODULE Spec2Model ----
(***************************************************************************)
(* Movie recommender (app.py): TMDBPosterProvider.get_poster_url,          *)
(* MovieRecommender.get_recommendations and the "Recommendation" button    *)
(* handler that renders its result.                                        *)
(*                                                                         *)
(* Indices are Python indices (0-based); TLA+ sequences are 1-based, so    *)
(* catalog position i is movies[i + 1].                                    *)
(***************************************************************************)
EXTENDS Integers, Sequences, FiniteSets, TLC

VARIABLES
    movies,        \* self.movies: sequence of [movie_id, title]
    similarity,    \* self.similarity: sequence of rows of scores
    net,           \* the outcomes the remote image service can produce in this run
    pc,            \* "idle" | "fetching" | "returned" | "raised" | "rendered" | "ui_error"
    movie_name,    \* argument of the running get_recommendations call
    idx,           \* local idx (-1 when not bound)
    top_indices,   \* local top_indices
    names,         \* local / returned names
    movie_ids,     \* local movie_ids
    futures,       \* one future per item submitted by executor.map
    posters,       \* local / returned posters
    out_of_order   \* history: some lookup completed before an earlier-submitted one

vars == <<movies, similarity, net, pc, movie_name, idx, top_indices, names,
          movie_ids, futures, posters, out_of_order>>

-----------------------------------------------------------------------------
(* Bounds of the enumerated catalogs *)
MaxN == 6
MaxScore == 1
MaxFairN == 3

(* Program constants *)
SLICE_START == 1
SLICE_STOP == 6
UI_COLUMNS == 5

image_base == "https://image.tmdb.org/t/p/w500/"
FALLBACK_URL == "https://via.placeholder.com/500x750?text=No+Image"

Min(a, b) == IF a < b THEN a ELSE b

-----------------------------------------------------------------------------
(* JSON values and HTTP outcomes of one lookup *)

JNull == [t |-> "null"]
JStr(s) == [t |-> "string", v |-> s]
JNum(n) == [t |-> "number", v |-> n]
JArray == [t |-> "array"]
JObject(f) == [t |-> "object", fields |-> f]
NotJson == [t |-> "invalid"]

\* The path the service stores for a movie.
PosterPath(movie_id) == "/p" \o ToString(movie_id) \o ".jpg"

EmptyObject == JObject([k \in {} |-> JNull])
ObjectWith(v) == JObject([k \in {"poster_path"} |-> v])

\* The body of the HTTP response of each kind, for the movie asked for.
Body(movie_id, kind) ==
    CASE kind = "ok"         -> ObjectWith(JStr(PosterPath(movie_id)))
      [] kind = "no_field"   -> EmptyObject
      [] kind = "null_path"  -> ObjectWith(JNull)
      [] kind = "empty_path" -> ObjectWith(JStr(""))
      [] kind = "num_path"   -> ObjectWith(JNum(7))
      [] kind = "array"      -> JArray
      [] kind = "not_json"   -> NotJson

TransportKinds == {"timeout", "conn_error"}
BodyKinds == {"ok", "no_field", "null_path", "empty_path", "num_path", "array", "not_json"}

Outcome(kind, status) == [kind |-> kind, status |-> status]
NoOutcome == Outcome("none", 0)

\* Python truthiness of a JSON value (None, "" and 0 are falsy).
Truthy(v) ==
    CASE v.t = "null"   -> FALSE
      [] v.t = "string" -> v.v # ""
      [] v.t = "number" -> v.v # 0
      [] OTHER          -> TRUE

Returned(v) == [tag |-> "return", value |-> v]
Raised == [tag |-> "raise"]
NoResult == [tag |-> "none"]

\* The try block of get_poster_url: the value returned from inside it,
\* "fallthrough" when it ends without returning, or the exception raised.
poster_try(movie_id, outcome) ==
    IF outcome.kind \in TransportKinds
    THEN [tag |-> "except", exc |-> "RequestException"]       \* requests.get raises
    ELSE LET data == Body(movie_id, outcome.kind) IN
         IF data.t = "invalid"
         THEN [tag |-> "except", exc |-> "JSONDecodeError"]   \* response.json() raises
         ELSE IF data.t # "object"
         THEN [tag |-> "except", exc |-> "AttributeError"]    \* data.get on a non-dict
         ELSE LET path == IF "poster_path" \in DOMAIN data.fields
                          THEN data.fields["poster_path"] ELSE JNull IN
              IF Truthy(path)
              THEN IF path.t = "string"
                   THEN Returned(image_base \o path.v)
                   ELSE [tag |-> "except", exc |-> "TypeError"] \* str + non-str
              ELSE [tag |-> "fallthrough"]

\* Variant: the handler catches only the errors of the requests library.
CaughtRequestErrors(exc) == exc = "RequestException"

\* except Exception: every exception raised in the try block is caught.
Caught(exc) == TRUE

\* Variant: no handler around the lookup, so its exceptions propagate.
get_poster_url_uncaught(movie_id, outcome) ==
    LET t == poster_try(movie_id, outcome) IN
    CASE t.tag = "return"      -> t
      [] t.tag = "fallthrough" -> Returned(FALLBACK_URL)
      [] t.tag = "except"      -> Raised

get_poster_url(movie_id, outcome) ==
    LET t == poster_try(movie_id, outcome) IN
    CASE t.tag = "return"      -> t
      [] t.tag = "fallthrough" -> Returned(FALLBACK_URL)
      [] t.tag = "except"      -> IF Caught(t.exc) THEN Returned(FALLBACK_URL) ELSE Raised

-----------------------------------------------------------------------------
(* Ranking *)

\* list(enumerate(row)): pairs <<index, score>> with 0-based indices.
enumerate(row) == [i \in 1..Len(row) |-> <<i - 1, row[i]>>]

\* Variant: x goes in front of the entries of equal score (the order of
\* sorted(...)[::-1]), so equal scores come out in reverse catalog order.
RECURSIVE InsertDescUnstable(_, _)
InsertDescUnstable(x, s) ==
    IF s = <<>> THEN <<x>>
    ELSE IF Head(s)[2] > x[2] THEN <<Head(s)>> \o InsertDescUnstable(x, Tail(s))
    ELSE <<x>> \o s

\* Insert x into a list sorted by score descending, behind every entry whose
\* score is at least x's: equal scores keep their original order.
RECURSIVE InsertDesc(_, _)
InsertDesc(x, s) ==
    IF s = <<>> THEN <<x>>
    ELSE IF Head(s)[2] >= x[2] THEN <<Head(s)>> \o InsertDesc(x, Tail(s))
    ELSE <<x>> \o s

\* sorted(pairs, reverse=True, key=lambda x: x[1]): stable, descending.
RECURSIVE SortedDescFrom(_, _)
SortedDescFrom(pairs, acc) ==
    IF pairs = <<>> THEN acc
    ELSE SortedDescFrom(Tail(pairs), InsertDesc(Head(pairs), acc))

sorted_reverse(pairs) == SortedDescFrom(pairs, <<>>)

\* Variant: the stop index is taken as inclusive.
SliceThroughStop(s, a, b) ==
    LET hi == Min(b + 1, Len(s)) IN
    IF a >= hi THEN <<>> ELSE [i \in 1..(hi - a) |-> s[a + i]]

\* Python slice s[a:b] for 0 <= a <= b.
Slice(s, a, b) ==
    LET hi == Min(b, Len(s)) IN
    IF a >= hi THEN <<>> ELSE [i \in 1..(hi - a) |-> s[a + i]]

\* Variant: the position of the first True of the mask, as idxmax gives it:
\* position 0 when nothing matches.
MatchingIndexOrFirst(catalog, name) ==
    LET hits == {i \in 1..Len(catalog) : catalog[i].title = name} IN
    IF hits = {} THEN <<0>>
    ELSE <<(CHOOSE i \in hits : \A j \in hits : i <= j) - 1>>

\* self.movies[self.movies['title'] == movie_name].index: the matching labels.
MatchingIndex(catalog, name) ==
    LET hits == {i \in 1..Len(catalog) : catalog[i].title = name} IN
    [k \in 1..Cardinality(hits) |->
        (CHOOSE i \in hits : Cardinality({j \in hits : j < i}) = k - 1) - 1]

\* self.movies.iloc[indices][column].tolist()
iloc(catalog, indices, column) ==
    [k \in 1..Len(indices) |->
        IF column = "title" THEN catalog[indices[k] + 1].title
        ELSE catalog[indices[k] + 1].movie_id]

\* Variant: the first entry is kept (distances[0:5]).
TopIndicesKeepSelf(row) ==
    LET d == Slice(sorted_reverse(enumerate(row)), SLICE_START - 1, SLICE_STOP - 1) IN
    [k \in 1..Len(d) |-> d[k][1]]

\* Lines 51-52.
Distances(row) == sorted_reverse(enumerate(row))
TopIndices(row) ==
    LET d == Slice(Distances(row), SLICE_START, SLICE_STOP) IN
    [k \in 1..Len(d) |-> d[k][1]]

-----------------------------------------------------------------------------
(* The executor *)

\* executor.map submits one call per argument, in order; the default pool has
\* min(32, cpu_count + 4) >= 5 threads, so every call gets a thread at once.
Submit(ids) ==
    [k \in 1..Len(ids) |->
        [arg |-> ids[k], state |-> "running", outcome |-> NoOutcome, result |-> NoResult]]

\* Variant: the wait ends with the first call that finishes.
JoinedFirstCompleted(futs) == futs = <<>> \/ \E k \in 1..Len(futs) : futs[k].state = "done"

\* The with block is left when every submitted call has finished.
Joined(futs) == \A k \in 1..Len(futs) : futs[k].state = "done"

\* Variant: the results are taken off a stack the workers push to in
\* submission order, so they come out last first.
ResultsReversed(futs) == [k \in 1..Len(futs) |-> futs[Len(futs) + 1 - k].result]

\* list(executor.map(...)): the results in submission order.
Results(futs) == [k \in 1..Len(futs) |-> futs[k].result]

\* The value a finished call returned.
ValueOf(res) == IF res.tag = "return" THEN res.value ELSE ""

AnyRaised(futs) == \E k \in 1..Len(futs) : futs[k].result.tag = "raise"

-----------------------------------------------------------------------------
(* Catalogs *)

TitleNames == <<"A", "B", "C", "D", "E", "F", "G", "H", "I">>
AbsentTitle == "Z"

\* Catalog of n distinctly named movies; identifiers are unrelated to positions.
PlainCatalog(n) == [i \in 1..n |-> [movie_id |-> 100 + (n + 1 - i), title |-> TitleNames[i]]]

\* Matrices all of whose rows are r.
ConstantRows(n, r) == [i \in 1..n |-> r]

ExampleCatalog == [i \in 1..6 |-> [movie_id |-> i, title |-> TitleNames[i]]]
ExampleSimilarity ==
    << <<100, 90, 90, 30, 10,  5>>,
       << 90, 100, 40, 40, 20, 10>>,
       << 90, 40, 100, 40, 20, 10>>,
       << 30, 40, 40, 100, 60, 50>>,
       << 10, 20, 20, 60, 100, 60>>,
       <<  5, 10, 10, 50, 60, 100>> >>

\* A catalog in which the title "A" occurs twice (positions 0 and 2).
DupTitles == <<"A", "B", "A", "C", "D", "E", "F">>
DupCatalog == [i \in 1..7 |-> [movie_id |-> 10 + i, title |-> DupTitles[i]]]
DupSimilarity ==
    << <<100, 20, 100, 30, 30, 10, 10>>,
       << 20, 100, 20, 50, 40, 40, 10>>,
       <<100, 20, 100, 30, 30, 10, 10>>,
       << 30, 50, 30, 100, 70, 20, 20>>,
       << 30, 40, 30, 70, 100, 20, 20>>,
       << 10, 40, 10, 20, 20, 100, 80>>,
       << 10, 10, 10, 20, 20, 80, 100>> >>

NetHealthy == {Outcome("ok", 200)}
NetFaulty == {Outcome(k, 200) : k \in {"ok", "timeout", "conn_error", "not_json", "array", "no_field"}}
NetStatus == {Outcome("ok", 200), Outcome("ok", 404), Outcome("no_field", 404), Outcome("ok", 500)}
NetOdd == {Outcome(k, 200) : k \in {"ok", "null_path", "empty_path", "num_path"}}
NetBasic == {Outcome("ok", 200), Outcome("timeout", 200)}

-----------------------------------------------------------------------------
(* State machine *)

Idle ==
    /\ pc = "idle"
    /\ movie_name = ""
    /\ idx = -1
    /\ top_indices = <<>>
    /\ names = <<>>
    /\ movie_ids = <<>>
    /\ futures = <<>>
    /\ posters = <<>>
    /\ out_of_order = FALSE

\* Every catalog of 1..MaxN distinctly named movies with every row over
\* 0..MaxScore, served by a healthy image service.
InitEnumerated ==
    /\ \E n \in 1..MaxN : \E r \in [1..n -> 0..MaxScore] :
          /\ movies = PlainCatalog(n)
          /\ similarity = ConstantRows(n, r)
    /\ net = NetHealthy
    /\ Idle

\* Fixed catalogs, served by an image service that fails in every way.
InitFaulty ==
    /\ \/ /\ movies = ExampleCatalog
          /\ similarity = ExampleSimilarity
          /\ net \in {NetFaulty, NetStatus, NetOdd}
       \/ /\ movies = DupCatalog
          /\ similarity = DupSimilarity
          /\ net = NetBasic
    /\ Idle

Init == InitEnumerated \/ InitFaulty

\* The initial states of the liveness check: small catalogs (fewer than five
\* lookups, or none) and the fixed catalogs with a failing image service.
InitFair ==
    /\ \/ /\ \E n \in 1..MaxFairN : \E r \in [1..n -> 0..MaxScore] :
                /\ movies = PlainCatalog(n)
                /\ similarity = ConstantRows(n, r)
          /\ net = NetBasic
       \/ /\ movies = ExampleCatalog
          /\ similarity = ExampleSimilarity
          /\ net \in {NetStatus, NetOdd}
       \/ /\ movies = DupCatalog
          /\ similarity = DupSimilarity
          /\ net = NetBasic
    /\ Idle

\* get_recommendations, lines 43-60 up to the submission of the lookups.
Recommend(name) ==
    /\ pc = "idle"
    /\ movie_name' = name
    /\ LET index == MatchingIndex(movies, name) IN
       IF Len(index) = 0
       THEN \* index[0] raises IndexError: return [], []
            /\ pc' = "returned"
            /\ names' = <<>>
            /\ posters' = <<>>
            /\ UNCHANGED <<idx, top_indices, movie_ids, futures>>
       ELSE LET i == index[1]
                top == TopIndices(similarity[i + 1])
                ids == iloc(movies, top, "movie_id") IN
            /\ idx' = i
            /\ top_indices' = top
            /\ names' = iloc(movies, top, "title")
            /\ movie_ids' = ids
            /\ futures' = Submit(ids)
            /\ pc' = "fetching"
            /\ UNCHANGED posters
    /\ UNCHANGED <<movies, similarity, net, out_of_order>>

\* The request of call k ends with some outcome; get_poster_url returns (or raises).
CompleteLookup(k, outcome) ==
    /\ pc = "fetching"
    /\ k \in 1..Len(futures)
    /\ futures[k].state = "running"
    /\ futures' = [futures EXCEPT ![k] =
                      [arg |-> @.arg, state |-> "done", outcome |-> outcome,
                       result |-> get_poster_url(@.arg, outcome)]]
    /\ out_of_order' = (out_of_order \/ \E j \in 1..(k - 1) : futures[j].state # "done")
    /\ UNCHANGED <<movies, similarity, net, pc, movie_name, idx, top_indices, names,
                   movie_ids, posters>>

\* Lines 59-62: the results are collected, the executor is shut down, return.
Return ==
    /\ pc = "fetching"
    /\ Joined(futures)
    /\ IF AnyRaised(futures)
       THEN /\ pc' = "raised"
            /\ UNCHANGED posters
       ELSE /\ pc' = "returned"
            /\ posters' = [k \in 1..Len(futures) |-> ValueOf(Results(futures)[k])]
    /\ UNCHANGED <<movies, similarity, net, movie_name, idx, top_indices, names,
                   movie_ids, futures, out_of_order>>

\* Lines 133-137: five columns, names[idx] and posters[idx] for idx in 0..4.
Render ==
    /\ pc = "returned"
    /\ pc' = IF Len(names) >= UI_COLUMNS /\ Len(posters) >= UI_COLUMNS
             THEN "rendered" ELSE "ui_error"
    /\ UNCHANGED <<movies, similarity, net, movie_name, idx, top_indices, names,
                   movie_ids, futures, posters, out_of_order>>

\* The script is run again: the locals of the last call are gone.
Rerun ==
    /\ pc \in {"rendered", "ui_error", "raised"}
    /\ pc' = "idle"
    /\ movie_name' = ""
    /\ idx' = -1
    /\ top_indices' = <<>>
    /\ names' = <<>>
    /\ movie_ids' = <<>>
    /\ futures' = <<>>
    /\ posters' = <<>>
    /\ out_of_order' = FALSE
    /\ UNCHANGED <<movies, similarity, net>>

\* The slice of line 52 is this long, so no call submits more lookups.
MaxLookups == SLICE_STOP - SLICE_START

Selections == {movies[i].title : i \in 1..Len(movies)} \cup {AbsentTitle}

Next ==
    \/ \E name \in Selections : Recommend(name)
    \/ \E k \in 1..Len(futures) : \E o \in net : CompleteLookup(k, o)
    \/ Return
    \/ Render
    \/ Rerun

Spec == Init /\ [][Next]_vars

\* Each lookup ends (it is bounded by its timeout) and threads are scheduled fairly.
Fairness ==
    /\ \A k \in 1..MaxLookups : WF_vars(\E o \in net : CompleteLookup(k, o))
    /\ WF_vars(Return)

FairSpec == InitFair /\ [][Next]_vars /\ Fairness

-----------------------------------------------------------------------------
(* Properties *)

N == Len(movies)
Found == \E c \in 1..N : movies[c].title = movie_name
Range(s) == {s[k] : k \in 1..Len(s)}

\* get_recommendations has returned normally (its result is still at hand).
HasReturned == pc \in {"returned", "rendered", "ui_error"}
\* get_recommendations has ended, normally or with an exception.
HasEnded == HasReturned \/ pc = "raised"
\* get_recommendations has been called and its locals are bound.
Called == pc # "idle"

\* C1: for a catalog of more than 5 items and a selection present in it, the
\* call returns exactly 5 names and 5 images, and images[i] is the URL
\* (resolved or fallback) that the lookup of the identifier of a catalog item
\* named names[i] produced.
C1_FiveAligned ==
    (HasEnded /\ Found /\ N > 5) =>
        /\ pc # "raised"
        /\ Len(names) = 5
        /\ Len(posters) = 5
        /\ Len(futures) = 5
        /\ \A i \in 1..5 : \E c \in 1..N :
              /\ movies[c].title = names[i]
              /\ futures[i].arg = movies[c].movie_id
              /\ futures[i].result = Returned(posters[i])
              /\ posters[i] \in {FALLBACK_URL, image_base \o PosterPath(movies[c].movie_id)}

C1_Witness ==
    /\ pc = "returned" /\ Found /\ N > 5
    /\ Len(names) = 5 /\ Len(posters) = 5
    /\ \E i, j \in 1..5 : posters[i] = FALLBACK_URL /\ posters[j] # FALLBACK_URL

\* C2: when the self-similarity score is the maximum of the query's row, the
\* query item is not among the items returned.
C2_SelfIsMax == \A j \in 1..N : similarity[idx + 1][j] <= similarity[idx + 1][idx + 1]

C2_SelfExcluded ==
    (HasReturned /\ Found /\ C2_SelfIsMax) =>
        /\ idx \notin Range(top_indices)
        /\ movies[idx + 1].movie_id \notin Range(movie_ids)

\* C3: the image list has the length of the identifier list, and position i
\* holds the result of the lookup of the identifier at position i, in
\* whatever order the lookups completed.
C3_OrderPreserved ==
    (HasReturned /\ Found) =>
        /\ Len(posters) = Len(movie_ids)
        /\ Len(futures) = Len(movie_ids)
        /\ \A i \in 1..Len(movie_ids) :
              /\ futures[i].arg = movie_ids[i]
              /\ futures[i].result = Returned(posters[i])

C3_Witness ==
    /\ pc = "returned" /\ Found /\ out_of_order
    /\ Len(posters) = 5
    /\ \A i, j \in 1..5 : i # j => posters[i] # posters[j]
    /\ \A i \in 1..5 : posters[i] = image_base \o PosterPath(movie_ids[i])

\* What one lookup yields by its own outcome alone: the composed URL when the
\* body carries a non-empty string path, the fallback otherwise.
C4_OwnUrl(movie_id, outcome) ==
    IF outcome.kind = "ok" THEN image_base \o PosterPath(movie_id) ELSE FALLBACK_URL

\* C4: a lookup that times out or errors yields the fallback at its own
\* position, and every position of the batch holds what its own lookup's
\* outcome yields, whatever happened to the others; the batch does not fail.
C4_FailureIsolated ==
    (HasEnded /\ Found) =>
        /\ pc # "raised"
        /\ Len(posters) = Len(futures)
        /\ \A i \in 1..Len(futures) :
              /\ futures[i].outcome.kind \in TransportKinds => posters[i] = FALLBACK_URL
              /\ posters[i] = C4_OwnUrl(futures[i].arg, futures[i].outcome)

C4_Witness ==
    /\ pc = "returned" /\ Found /\ Len(posters) = 5
    /\ \E i, j, k \in 1..5 :
          /\ futures[i].outcome.kind = "timeout" /\ posters[i] = FALLBACK_URL
          /\ futures[j].outcome.kind = "conn_error" /\ posters[j] = FALLBACK_URL
          /\ futures[k].outcome.kind = "ok" /\ posters[k] = image_base \o PosterPath(movie_ids[k])

\* C5: a lookup that ends in a transport error, a timeout, a non-2xx status
\* or a response without the image-path field returns the fallback URL.
C5_Failed(outcome) ==
    \/ outcome.kind \in TransportKinds
    \/ outcome.kind = "no_field"
    \/ outcome.kind \in BodyKinds /\ outcome.status \notin 200..299

C5_FailureGivesFallback ==
    \A k \in 1..Len(futures) :
        (futures[k].state = "done" /\ C5_Failed(futures[k].outcome)) =>
            futures[k].result = Returned(FALLBACK_URL)

\* C6: for a selection that names no catalog item the call returns two empty
\* sequences, without looking anything up and without raising.
C6_AbsentGivesEmpty ==
    (Called /\ ~Found) =>
        /\ HasReturned
        /\ names = <<>>
        /\ posters = <<>>
        /\ futures = <<>>

C6_Witness ==
    /\ pc = "returned" /\ movie_name = AbsentTitle /\ ~Found
    /\ names = <<>> /\ posters = <<>>

\* C7: the returned items are ordered by score descending, then by catalog
\* index ascending; for the catalog [A..F] with the row [1.0, 0.9, 0.9, 0.3,
\* 0.1, 0.05] for A (scores in hundredths) the names are [B, C, D, E, F].
C7_TieBreak ==
    (Called /\ Found) =>
        /\ \A a, b \in 1..Len(top_indices) : a < b =>
              LET row == similarity[idx + 1]
                  i == top_indices[a]
                  j == top_indices[b] IN
              \/ row[i + 1] > row[j + 1]
              \/ row[i + 1] = row[j + 1] /\ i < j
        /\ names = [k \in 1..Len(top_indices) |-> movies[top_indices[k] + 1].title]
        /\ (movies = ExampleCatalog /\ similarity = ExampleSimilarity /\ movie_name = "A")
              => names = <<"B", "C", "D", "E", "F">>

C7_Witness ==
    /\ pc = "returned" /\ movies = ExampleCatalog /\ similarity = ExampleSimilarity
    /\ movie_name = "A"
    /\ similarity[1] = <<100, 90, 90, 30, 10, 5>>
    /\ names = <<"B", "C", "D", "E", "F">>

\* C8: get_recommendations never ends with an exception, whatever the
\* selection and whatever the outcomes of the lookups.
C8_NoException ==
    /\ pc # "raised"
    /\ \A k \in 1..Len(futures) : futures[k].state = "done" => futures[k].result.tag = "return"

C8_Witness ==
    /\ pc = "returned" /\ Found
    /\ {"timeout", "conn_error", "not_json", "array", "no_field"}
          \subseteq {futures[k].outcome.kind : k \in 1..Len(futures)}

\* C9: the call returns only after every lookup of the batch has completed,
\* and once the lookups are submitted it eventually returns.
C9_JoinBeforeReturn ==
    /\ []((HasReturned /\ Found) =>
             /\ Len(futures) = Len(movie_ids)
             /\ \A k \in 1..Len(futures) :
                   futures[k].state = "done" /\ futures[k].result.tag = "return")
    /\ [](pc = "fetching" => <>(pc = "returned"))

C9_Witness ==
    /\ pc = "returned" /\ Found /\ Len(futures) = 5
    /\ \A k \in 1..5 : futures[k].state = "done"
    /\ \E k \in 1..5 : futures[k].outcome.kind = "timeout"

\* C10: for a selection present in a catalog of N >= 1 items, names and
\* images have the same length min(5, N - 1), and one lookup is issued per
\* returned name.
C10_Length ==
    (HasReturned /\ Found) =>
        /\ Len(names) = Min(5, N - 1)
        /\ Len(posters) = Len(names)
        /\ Len(futures) = Len(names)

C10_Witness ==
    /\ pc = "returned" /\ Found /\ N = 3
    /\ Len(names) = 2 /\ Len(posters) = 2

====
